---- MODULE Spec2Model ----
(***************************************************************************)
(* Segment aggregation and hypothesis testing of the insurance analytics   *)
(* scripts: src/src/results_tables.py (summary tables per segment column)  *)
(* and src/src/stat_tests.py (textual hypothesis-test report).             *)
(*                                                                         *)
(* A DataFrame is a sequence of rows; a row is a function from the column  *)
(* names present to cells.  A missing cell (NaN) is the empty tuple <<>>,  *)
(* a present cell is the one-element tuple <<v>>.  Raw amount cells, as    *)
(* read from the file, are character sequences.                            *)
(***************************************************************************)
EXTENDS Integers, Sequences, FiniteSets, TLC

VARIABLES
    found,      \* whether find_input() locates an input file
    file,       \* rows of the located file, as read by pd.read_csv
    cols,       \* columns of the DataFrame the program holds
    df,         \* the DataFrame the program holds (<<>> before load_data)
    pc,         \* position of the running script
    table,      \* the last table returned by summarize_group: rows and their order
    written,    \* output files written by run_all
    df_z,       \* run_tests' copy of the rows of the top postal codes
    report,     \* the last hypothesis-test report printed by run_tests
    printed,    \* names of the tests whose report has been printed
    passed      \* the record set main handed to prepare, as it stands
                \* (<<>> before the call)

vars == <<found, file, cols, df, pc, table, written, df_z, report, printed, passed>>

----------------------------------------------------------------------------
(* Cells *)

NA == <<>>
Some(v) == <<v>>
IsNA(c) == c = NA

(* Category labels in their sort order (groupby sorts the group keys). *)
Labels == <<"A", "B", "C", "D", "E", "F", "G", "H", "I", "J", "K", "L", "M">>

CatCols == {"Province", "PostalCode", "Gender", "make", "Model"}
OptionalCols == CatCols \cup {"PolicyID", "TotalPremium"}
AllCols == OptionalCols \cup {"TotalClaims"}

----------------------------------------------------------------------------
(* Numeric coercion: pd.to_numeric(s.astype(str).str.replace(',', '')      *)
(*                                  .str.strip(), errors='coerce')         *)

Digits == {"0", "1", "2", "3", "4", "5", "6", "7", "8", "9"}

DigitVal(c) ==
    CASE c = "0" -> 0 [] c = "1" -> 1 [] c = "2" -> 2 [] c = "3" -> 3
      [] c = "4" -> 4 [] c = "5" -> 5 [] c = "6" -> 6 [] c = "7" -> 7
      [] c = "8" -> 8 [] c = "9" -> 9

NotComma(c) == c # ","

StrReplaceComma(s) == SelectSeq(s, NotComma)

RECURSIVE StrStrip(_)
StrStrip(s) ==
    IF s = <<>> THEN s
    ELSE IF Head(s) = " " THEN StrStrip(Tail(s))
    ELSE IF s[Len(s)] = " " THEN StrStrip(SubSeq(s, 1, Len(s) - 1))
    ELSE s

RECURSIVE ParseDigits(_, _)
ParseDigits(s, acc) ==
    IF s = <<>> THEN acc ELSE ParseDigits(Tail(s), 10 * acc + DigitVal(Head(s)))

ToNumeric(s) ==
    LET t == StrStrip(StrReplaceComma(s))
    IN  IF t = <<>> \/ \E i \in 1..Len(t) : t[i] \notin Digits
        THEN NA
        ELSE Some(ParseDigits(t, 0))

----------------------------------------------------------------------------
(* Sums over rows *)

RECURSIVE SumTo(_, _)
SumTo(f, n) == IF n = 0 THEN 0 ELSE f[n] + SumTo(f, n - 1)

(* Series.sum(): missing cells are skipped. *)
ColSum(d, idx, c) ==
    SumTo([i \in 1..Len(d) |->
              IF i \in idx /\ ~IsNA(d[i][c]) THEN d[i][c][1] ELSE 0], Len(d))

Rows(d) == 1..Len(d)

----------------------------------------------------------------------------
(* results_tables.py: load_data *)

AmountCols == {"TotalPremium", "TotalClaims"}

(* The coercion loop shared by load_data and prepare. *)
CoerceRow(r) ==
    [c \in DOMAIN r |-> IF c \in AmountCols THEN ToNumeric(r[c]) ELSE r[c]]

(* (df['TotalClaims'].fillna(0) > 0).astype(int) *)
ClaimOccurredOf(r) ==
    IF ~IsNA(r["TotalClaims"]) /\ r["TotalClaims"][1] > 0 THEN Some(1) ELSE Some(0)

(* df['TotalPremium'] - df['TotalClaims']: missing if either is missing *)
MarginOf(r) ==
    IF IsNA(r["TotalPremium"]) \/ IsNA(r["TotalClaims"])
    THEN NA
    ELSE Some(r["TotalPremium"][1] - r["TotalClaims"][1])

(* df['TotalClaims'].where(df['ClaimOccurred'] == 1) *)
ClaimSeverityOf(r) ==
    IF ClaimOccurredOf(r) = Some(1) THEN r["TotalClaims"] ELSE NA

DerivedCols == {"ClaimOccurred", "Margin", "ClaimSeverity"}

(* load_data indexes TotalClaims and TotalPremium without a presence check. *)
R_LoadRaises(cs) == "TotalClaims" \notin cs \/ "TotalPremium" \notin cs

R_LoadRow(raw) ==
    LET r == CoerceRow(raw)
    IN  [c \in DOMAIN r \cup DerivedCols |->
           CASE c = "ClaimOccurred" -> ClaimOccurredOf(r)
             [] c = "Margin" -> MarginOf(r)
             [] c = "ClaimSeverity" -> ClaimSeverityOf(r)
             [] OTHER -> r[c]]

R_LoadData(d) == [i \in 1..Len(d) |-> R_LoadRow(d[i])]

----------------------------------------------------------------------------
(* results_tables.py: two_prop_ztest *)

Sign(x) == IF x > 0 THEN 1 ELSE IF x < 0 THEN 0 - 1 ELSE 0

(* With K = k1 + k2 and N = n1 + n2, se^2 = K (N - K) / (N n1 n2); np.sqrt  *)
(* of a negative number is nan.  z = (p1 - p2) / se is kept as its sign and *)
(* its square (k1 n2 - k2 n1)^2 N / (n1 n2 K (N - K)); the p-value          *)
(* 2 * norm.sf(|z|) is a function of that square.                           *)
two_prop_ztest(k1, n1, k2, n2) ==
    LET K == k1 + k2
        N == n1 + n2
        seNaN == n1 = 0 \/ n2 = 0 \/ K * (N - K) < 0
        seZero == ~seNaN /\ K * (N - K) = 0
        d == k1 * n2 - k2 * n1
        zsq == <<d * d * N, n1 * n2 * K * (N - K)>>
    IN  IF seZero \/ seNaN
        THEN [z |-> NA, pval |-> NA]
        ELSE [z |-> Some([sgn |-> Sign(d), sq |-> zsq]), pval |-> Some(zsq)]

----------------------------------------------------------------------------
(* results_tables.py: summarize_group *)

(* Group keys of df.groupby(group_col): missing keys are dropped. *)
GroupKeys(d, c) == {d[i][c][1] : i \in {j \in Rows(d) : ~IsNA(d[j][c])}}

(* Faulty variant: rows with a missing key are taken into every group. *)
GroupRows_WithMissing(d, c, g) == {i \in Rows(d) : d[i][c] = Some(g) \/ IsNA(d[i][c])}

GroupRows(d, c, g) == {i \in Rows(d) : d[i][c] = Some(g)}

(* Faulty variant: the policy count is the row count even with a PolicyID column. *)
AggPolicies_CountsRows(d, cs, idx) == Cardinality(idx)

(* ('PolicyID', 'nunique') counts the distinct non-missing ids;             *)
(* ('ClaimOccurred', 'count') counts the rows.                              *)
AggPolicies(d, cs, idx) ==
    IF "PolicyID" \in cs
    THEN Cardinality({d[i]["PolicyID"] : i \in idx} \ {NA})
    ELSE Cardinality({i \in idx : ~IsNA(d[i]["ClaimOccurred"])})

Agg(d, cs, c, g) ==
    LET idx == GroupRows(d, c, g)
    IN  [name |-> g,
         policies |-> AggPolicies(d, cs, idx),
         total_premium |-> ColSum(d, idx, "TotalPremium"),
         total_claims |-> ColSum(d, idx, "TotalClaims"),
         claims_count |-> ColSum(d, idx, "ClaimOccurred")]

RECURSIVE SumSet(_, _)
SumSet(S, f) ==
    IF S = {} THEN 0
    ELSE LET x == CHOOSE y \in S : TRUE IN f[x] + SumSet(S \ {x}, f)

OverallPolicies(d, cs, c) ==
    SumSet(GroupKeys(d, c), [g \in GroupKeys(d, c) |-> Agg(d, cs, c, g).policies])

OverallClaims(d, cs, c) ==
    SumSet(GroupKeys(d, c), [g \in GroupKeys(d, c) |-> Agg(d, cs, c, g).claims_count])

(* grp.sort_values('policies', ascending=False).head(top_n): the groups     *)
(* kept.  The order among groups of equal policy count is left to the sort, *)
(* so every choice among tied groups is allowed.  top_n = 0 stands for None *)
(* (both are falsy in "if top_n").                                          *)
TopSets(d, cs, c, top_n) ==
    LET keys == GroupKeys(d, c)
        pol == [g \in keys |-> Agg(d, cs, c, g).policies]
        m == IF Cardinality(keys) < top_n THEN Cardinality(keys) ELSE top_n
    IN  IF top_n = 0 THEN {keys}
        ELSE {T \in SUBSET keys :
                /\ Cardinality(T) = m
                /\ \A t \in T : \A u \in keys \ T : pol[t] >= pol[u]}

MW_MIN == 10

(* s_group and s_rest: the row labels of the non-missing ClaimSeverity.     *)
(* df[group_col] != name is true of a row whose group_col is missing.       *)
SGroup(d, c, g) == {i \in Rows(d) : d[i][c] = Some(g) /\ ~IsNA(d[i]["ClaimSeverity"])}
SRest(d, c, g) == {i \in Rows(d) : d[i][c] # Some(g) /\ ~IsNA(d[i]["ClaimSeverity"])}

RestN(d, cs, c, g) == OverallPolicies(d, cs, c) - Agg(d, cs, c, g).policies
RestK(d, cs, c, g) == OverallClaims(d, cs, c) - Agg(d, cs, c, g).claims_count

(* stats.mannwhitneyu(s_group, s_rest) inside try/except: lib_ok says       *)
(* whether the library call returns; its result is kept as the two samples  *)
(* it was given.                                                            *)
(* Faulty variant: the gate lets samples of nine through. *)
MannWhitneyGate_Nine(x, y) ==
    Cardinality(x) >= MW_MIN - 1 /\ Cardinality(y) >= MW_MIN - 1

MannWhitneyGate(x, y) == Cardinality(x) >= MW_MIN /\ Cardinality(y) >= MW_MIN

SeverityTest(d, c, g, lib_ok) ==
    IF MannWhitneyGate(SGroup(d, c, g), SRest(d, c, g))
    THEN IF lib_ok
         THEN Some([x |-> SGroup(d, c, g), y |-> SRest(d, c, g)])
         ELSE NA
    ELSE NA

Ratio(a, b) == IF b # 0 THEN Some(<<a, b>>) ELSE NA

FreqTest(k, n, rest_k, rest_n) ==
    IF rest_n > 0 THEN two_prop_ztest(k, n, rest_k, rest_n)
    ELSE [z |-> NA, pval |-> NA]

SummaryRow(d, cs, c, g, lib_ok) ==
    LET a == Agg(d, cs, c, g)
        f == FreqTest(a.claims_count, a.policies, RestK(d, cs, c, g), RestN(d, cs, c, g))
        s == SeverityTest(d, c, g, lib_ok)
    IN  [name |-> g,
         policies |-> a.policies,
         claims_count |-> a.claims_count,
         claim_freq |-> Ratio(a.claims_count, a.policies),
         total_premium |-> a.total_premium,
         total_claims |-> a.total_claims,
         loss_ratio |-> Ratio(a.total_claims, a.total_premium),
         z_freq_vs_rest |-> f.z,
         p_freq_vs_rest |-> f.pval,
         mw_stat_severity_vs_rest |-> s,
         p_severity_vs_rest |-> s]

(* pd.DataFrame([]) has no 'policies' column: the final sort_values raises  *)
(* KeyError when no group was summarised.                                   *)
SummarizeRaises(d, c) == GroupKeys(d, c) = {}

summarize_group(d, cs, c, kept, lib_ok) ==
    {SummaryRow(d, cs, c, g, lib_ok) : g \in kept}

(* The place of a group key in the key order of groupby(...).reset_index(). *)
LabelIndex(g) == CHOOSE i \in 1..Len(Labels) : Labels[i] = g

(* The order of a and b under sort_values('policies', ascending=False):     *)
(* policy count descending.  sort_values is called without kind=, so the    *)
(* sort is the default quicksort, which is not stable: rows of equal policy *)
(* count come out in their group order (in_order) or against it.            *)
Precedes(a, b, in_order) ==
    \/ a.policies > b.policies
    \/ /\ a.policies = b.policies
       /\ IF in_order THEN LabelIndex(a.name) < LabelIndex(b.name)
                      ELSE LabelIndex(a.name) > LabelIndex(b.name)

RECURSIVE SortedByPolicies(_, _)
SortedByPolicies(rows, in_order) ==
    IF rows = {} THEN <<>>
    ELSE LET first == CHOOSE r \in rows : \A q \in rows \ {r} : Precedes(r, q, in_order)
         IN  <<first>> \o SortedByPolicies(rows \ {first}, in_order)

(* The segment values of the returned table, first row first. *)
sort_values(rows) ==
    UNION {{[i \in 1..Len(s) |-> s[i].name]} :
             s \in {SortedByPolicies(rows, in_order) : in_order \in BOOLEAN}}

----------------------------------------------------------------------------
(* Input files *)

KW_MIN == 20

NSeg == 2
NPol == 2
WideSegs == 11

PremRaw == << <<"1", "0", "0">>, <<"n", "/", "a">> >>
ClaimRaw == << <<"0">>, <<" ", "5", "0", " ">> >>

Cat(s) == IF s = 0 THEN NA ELSE Some(Labels[s])
Gen(s) == IF s = 0 THEN NA
          ELSE IF s = 1 THEN Some("Male")
          ELSE IF s = 2 THEN Some("Female")
          ELSE Some("Other")
Pol(p) == IF p = 0 THEN NA ELSE Some(p)

(* One row of the file: every categorical column carries the row's segment. *)
MkRow(s, pol, prem, cl) ==
    [c \in AllCols |->
       CASE c = "Gender" -> Gen(s)
         [] c = "PolicyID" -> Pol(pol)
         [] c = "TotalPremium" -> prem
         [] c = "TotalClaims" -> cl
         [] OTHER -> Cat(s)]

Kinds == [s : 0..NSeg, pol : 0..NPol, p : 1..2, c : 1..2]
KindRow(k) == MkRow(k.s, k.pol, PremRaw[k.p], ClaimRaw[k.c])
Code(k) == ((k.s * (NPol + 1) + k.pol) * 2 + (k.p - 1)) * 2 + (k.c - 1)

SmallMults == {1, 2}
BigMults == {1, MW_MIN - 1, MW_MIN, KW_MIN}

(* Files of one or two blocks of identical rows. *)
Blocks(K, M) ==
    {<<[k |-> k1, m |-> m1]>> : k1 \in K, m1 \in M}
    \cup {<<[k |-> k1, m |-> m1], [k |-> k2, m |-> m2]>> :
            k1 \in K, k2 \in K, m1 \in M, m2 \in M}

PolsUsed(bs) == {bs[i].k.pol : i \in 1..Len(bs)}

(* Blocks in increasing kind order, policy ids used from 1 upwards. *)
Canonical(bs) ==
    /\ \A i \in 1..(Len(bs) - 1) : Code(bs[i].k) < Code(bs[i + 1].k)
    /\ \A q \in 2..NPol : q \in PolsUsed(bs) => (q - 1) \in PolsUsed(bs)

RECURSIVE Expand(_)
Expand(bs) ==
    IF bs = <<>> THEN <<>>
    ELSE [i \in 1..Head(bs).m |-> KindRow(Head(bs).k)] \o Expand(Tail(bs))

Project(d, cs) == [i \in 1..Len(d) |-> [c \in cs |-> d[i][c]]]

(* Every row its own policy: PolicyID is the row number. *)
OwnPolicy(d) == [i \in 1..Len(d) |-> [d[i] EXCEPT !["PolicyID"] = Some(i)]]

(* Files with more than ten segments: one row per segment (the first nc of  *)
(* them with a claim), and extra further rows in the last segment.          *)
WideFile(w, nc, extra) ==
    [i \in 1..(w + extra) |->
       MkRow(IF i > w THEN w ELSE i, i, <<"1", ",", "0", "0", "0">>,
             IF i <= nc THEN ClaimRaw[2] ELSE ClaimRaw[1])]

BaseFile == Expand(<<[k |-> [s |-> 1, pol |-> 1, p |-> 1, c |-> 2], m |-> 1],
                     [k |-> [s |-> 2, pol |-> 2, p |-> 1, c |-> 1], m |-> 1]>>)

(* The end-to-end scenario: A:(100,0), A:(100,50), B:(100,0), B:(100,0),    *)
(* with the columns province, premium and claims only.                      *)
ExampleCols == {"Province", "TotalPremium", "TotalClaims"}
ExampleFile ==
    Project(Expand(<<[k |-> [s |-> 1, pol |-> 0, p |-> 1, c |-> 1], m |-> 1],
                     [k |-> [s |-> 1, pol |-> 0, p |-> 1, c |-> 2], m |-> 1],
                     [k |-> [s |-> 2, pol |-> 0, p |-> 1, c |-> 1], m |-> 2]>>),
            ExampleCols)

NoPolicyKinds == {k \in Kinds : k.pol = 0}

Inputs ==
    (* few rows, policies shared between rows and segments *)
    {[cols |-> AllCols, file |-> Expand(bs)] :
        bs \in {b \in Blocks(Kinds, SmallMults) : Canonical(b)}}
    (* many rows, one policy per row *)
    \cup {[cols |-> AllCols, file |-> OwnPolicy(Expand(bs))] :
            bs \in {b \in Blocks(NoPolicyKinds, BigMults) : Canonical(b)}}
    (* no PolicyID column *)
    \cup {[cols |-> AllCols \ {"PolicyID"},
           file |-> Project(Expand(bs), AllCols \ {"PolicyID"})] :
            bs \in {b \in Blocks(NoPolicyKinds, SmallMults) : Canonical(b)}}
    (* more segments than a top-10 table keeps *)
    \cup {[cols |-> AllCols, file |-> WideFile(WideSegs, nc, extra)] :
            nc \in {0, 1, WideSegs}, extra \in {0, 1}}
    (* optional columns absent *)
    \cup {[cols |-> AllCols \ X, file |-> Project(BaseFile, AllCols \ X)] :
            X \in SUBSET OptionalCols \ {{}}}
    \cup {[cols |-> ExampleCols, file |-> ExampleFile]}

NoTable == [group_col |-> "", rows |-> {}, order |-> <<>>]
NoReport == [test |-> "", outcome |-> "", p |-> NA]

Init ==
    /\ \/ /\ found = TRUE
          /\ \E inp \in Inputs : file = inp.file /\ cols = inp.cols
       \/ /\ found = FALSE
          /\ file = <<>>
          /\ cols = {}
    /\ df = <<>>
    /\ pc = "start"
    /\ table = NoTable
    /\ written = {}
    /\ df_z = <<>>
    /\ report = NoReport
    /\ printed = {}
    /\ passed = <<>>

----------------------------------------------------------------------------
(* results_tables.py: main and run_all *)

TOP_POSTAL == 10
TOP_MAKE == 20
TOP_MODEL == 20

(* main: find_input, load_data. *)
R_Main ==
    /\ pc = "start"
    /\ IF ~found
       THEN pc' = "r_done" /\ UNCHANGED <<df, cols>>
       ELSE IF R_LoadRaises(cols)
       THEN pc' = "raised" /\ UNCHANGED <<df, cols>>
       ELSE /\ df' = R_LoadData(file)
            /\ cols' = cols \cup DerivedCols
            /\ pc' = "r_Province"
    /\ UNCHANGED <<found, file, table, written, df_z, report, printed, passed>>

(* One "if c in df.columns: summarize_group(...).to_csv(...)" of run_all. *)
R_Step(here, c, top_n, out, next) ==
    /\ pc = here
    /\ IF c \notin cols
       THEN pc' = next /\ UNCHANGED <<table, written>>
       ELSE IF SummarizeRaises(df, c)
       THEN pc' = "raised" /\ UNCHANGED <<table, written>>
       ELSE \E kept \in TopSets(df, cols, c, top_n), lib_ok \in BOOLEAN :
              \E out_df \in {summarize_group(df, cols, c, kept, lib_ok)} :
                \E order \in sort_values(out_df) :
                  /\ table' = [group_col |-> c, rows |-> out_df, order |-> order]
                  /\ written' = written \cup {out}
                  /\ pc' = next
    /\ UNCHANGED <<found, file, cols, df, df_z, report, printed, passed>>

R_Province == R_Step("r_Province", "Province", 0, "province_summary.csv", "r_PostalCode")
R_PostalCode ==
    R_Step("r_PostalCode", "PostalCode", TOP_POSTAL, "postalcode_top10_summary.csv", "r_make")
R_Make == R_Step("r_make", "make", TOP_MAKE, "make_summary_top20.csv", "r_Model")
R_Model == R_Step("r_Model", "Model", TOP_MODEL, "model_summary_top20.csv", "r_done")

----------------------------------------------------------------------------
(* stat_tests.py: prepare, summary_overall *)

(* prepare reads df['TotalClaims'] for ClaimSeverity without a presence     *)
(* check.                                                                   *)
T_PrepareRaises(cs) == "TotalClaims" \notin cs

T_PrepareRow(raw, cs) ==
    LET r == CoerceRow(raw)
    IN  [c \in DOMAIN r \cup DerivedCols |->
           CASE c = "ClaimOccurred" ->
                  IF "TotalClaims" \in cs THEN ClaimOccurredOf(r) ELSE Some(0)
             [] c = "ClaimSeverity" -> ClaimSeverityOf(r)
             [] c = "Margin" ->
                  IF "TotalPremium" \in cs /\ "TotalClaims" \in cs
                  THEN MarginOf(r) ELSE NA
             [] OTHER -> r[c]]

prepare(d, cs) == [i \in 1..Len(d) |-> T_PrepareRow(d[i], cs)]

(* summary_overall indexes TotalPremium without a presence check. *)
SummaryOverallRaises(cs) == "TotalPremium" \notin cs

----------------------------------------------------------------------------
(* stat_tests.py: chi2_test_frequency, kw_test_numeric *)

FillMissing(cell) == IF IsNA(cell) THEN "MISSING" ELSE cell[1]

(* Faulty variant: rows with a missing segment value are dropped from the table. *)
Crosstab_DropMissing(d, c) ==
    LET keep == {i \in Rows(d) : ~IsNA(d[i][c])}
        L == {d[i][c][1] : i \in keep}
        V == {d[i]["ClaimOccurred"][1] : i \in keep}
    IN  [labels |-> L,
         values |-> V,
         cell |-> [x \in L \X V |->
                     Cardinality({i \in keep :
                                    /\ d[i][c][1] = x[1]
                                    /\ d[i]["ClaimOccurred"][1] = x[2]})]]

(* pd.crosstab(df[group_col].fillna('MISSING'), df['ClaimOccurred']) *)
Crosstab(d, c) ==
    LET L == {FillMissing(d[i][c]) : i \in Rows(d)}
        V == {d[i]["ClaimOccurred"][1] : i \in Rows(d)}
    IN  [labels |-> L,
         values |-> V,
         cell |-> [x \in L \X V |->
                     Cardinality({i \in Rows(d) :
                                    /\ FillMissing(d[i][c]) = x[1]
                                    /\ d[i]["ClaimOccurred"][1] = x[2]})]]

NoCrosstab == [labels |-> {}, values |-> {}, cell |-> <<>>]

(* stats.chi2_contingency: raises on an empty table; with zero degrees of   *)
(* freedom the statistic is 0 and the p-value 1.  p-values are in           *)
(* hundredths.                                                              *)
ALPHA == 5
P_ONE == 100
PVals == {ALPHA - 1, ALPHA}

Chi2Raises(ct) == ct.labels = {} \/ ct.values = {}
Chi2Dof(ct) == (Cardinality(ct.labels) - 1) * (Cardinality(ct.values) - 1)
Chi2PVals(ct) == IF Chi2Dof(ct) = 0 THEN {P_ONE} ELSE PVals

(* vals = g[value_col].dropna().values for one group *)
GroupVals(d, c, g, v) ==
    LET sel == SelectSeq(d, LAMBDA r : r[c] = Some(g) /\ ~IsNA(r[v]))
    IN  [i \in 1..Len(sel) |-> sel[i][v][1]]

(* Faulty variant: a group of exactly min_group_size values is discarded. *)
KwQualifies_Strict(vals, min_group_size) == Len(vals) > min_group_size

KwQualifies(vals, min_group_size) == Len(vals) >= min_group_size

(* kw_test_numeric up to the call of stats.kruskal: the labels kept and the *)
(* samples handed to the test (NA when fewer than two groups qualify).      *)
kw_test_numeric(d, c, v, min_group_size) ==
    LET labels == {g \in GroupKeys(d, c) :
                     KwQualifies(GroupVals(d, c, g, v), min_group_size)}
        groups == [g \in labels |-> GroupVals(d, c, g, v)]
    IN  [labels |-> labels,
         groups |-> IF Cardinality(labels) < 2 THEN NA ELSE Some(groups)]

----------------------------------------------------------------------------
(* stat_tests.py: main and run_tests *)

(* Faulty variant: p = 0.05 rejects. *)
Decision_Inclusive(p) == IF p <= ALPHA THEN "Reject H0" ELSE "Fail to reject H0"

Decision(p) == IF p < ALPHA THEN "Reject H0" ELSE "Fail to reject H0"

Rep(test, outcome, p, ct, labels, groups) ==
    [test |-> test, outcome |-> outcome, p |-> p, ct |-> ct,
     labels |-> labels, groups |-> groups]

Skip(test) == Rep(test, "skip", NA, NoCrosstab, {}, NA)

T_Frame == <<found, file, table, written>>

(* main: find_input, load_data. *)
T_Main ==
    /\ pc = "start"
    /\ IF ~found
       THEN pc' = "t_done" /\ df' = df
       ELSE pc' = "t_prepare" /\ df' = file
    /\ UNCHANGED <<T_Frame, passed, cols, df_z, report, printed>>

(* df = prepare(df).  prepare assigns into its parameter (df[c] = ...,      *)
(* df['ClaimOccurred'] = ...) and returns it: the record set main passed    *)
(* and the one it gets back are one object.                                 *)
T_Prepare ==
    /\ pc = "t_prepare"
    /\ IF T_PrepareRaises(cols)
       THEN pc' = "raised" /\ UNCHANGED <<df, cols, passed>>
       ELSE /\ passed' = prepare(df, cols)
            /\ df' = passed'
            /\ cols' = cols \cup DerivedCols
            /\ pc' = "t_overall"
    /\ UNCHANGED <<T_Frame, df_z, report, printed>>

T_SummaryOverall ==
    /\ pc = "t_overall"
    /\ pc' = IF SummaryOverallRaises(cols) THEN "raised" ELSE "t_province_freq"
    /\ UNCHANGED <<T_Frame, passed, cols, df, df_z, report, printed>>

(* A chi-square test of d on column c, reported under the name test. *)
Chi2Step(d, c, test, next) ==
    IF Chi2Raises(Crosstab(d, c))
    THEN pc' = "raised" /\ UNCHANGED <<report, printed>>
    ELSE \E p \in Chi2PVals(Crosstab(d, c)) :
           /\ report' = Rep(test, Decision(p), Some(p), Crosstab(d, c), {}, NA)
           /\ printed' = printed \cup {test}
           /\ pc' = next

(* A Kruskal-Wallis test; stats.kruskal returns a p-value or raises. *)
KwStep(d, c, v, test, next) ==
    LET kw == kw_test_numeric(d, c, v, KW_MIN)
    IN  IF IsNA(kw.groups)
        THEN /\ report' = Rep(test, "skip", NA, NoCrosstab, kw.labels, NA)
             /\ printed' = printed \cup {test}
             /\ pc' = next
        ELSE \E p \in PVals \cup {P_ONE + 1} :
               IF p > P_ONE
               THEN pc' = "raised" /\ UNCHANGED <<report, printed>>
               ELSE /\ report' = Rep(test, Decision(p), Some(p), NoCrosstab,
                                     kw.labels, kw.groups)
                    /\ printed' = printed \cup {test}
                    /\ pc' = next

T_ProvinceFreq ==
    /\ pc = "t_province_freq"
    /\ IF "Province" \notin cols
       THEN /\ report' = Skip("province")
            /\ printed' = printed \cup {"province"}
            /\ pc' = "t_zip_freq"
       ELSE Chi2Step(df, "Province", "province_freq", "t_province_sev")
    /\ UNCHANGED <<T_Frame, passed, cols, df, df_z>>

T_ProvinceSeverity ==
    /\ pc = "t_province_sev"
    /\ KwStep(SelectSeq(df, LAMBDA r : r["ClaimOccurred"] = Some(1)),
              "Province", "ClaimSeverity", "province_sev", "t_zip_freq")
    /\ UNCHANGED <<T_Frame, passed, cols, df, df_z>>

TOP_ZIPS == 10

(* Rows per non-missing value of column c (value_counts drops missing). *)
ValueCounts(d, c) ==
    [g \in GroupKeys(d, c) |-> Cardinality(GroupRows(d, c, g))]

(* df['PostalCode'].value_counts().nlargest(10).index: any choice among     *)
(* codes of equal count.                                                    *)
TopZips(d) ==
    LET vc == ValueCounts(d, "PostalCode")
        keys == DOMAIN vc
        m == IF Cardinality(keys) < TOP_ZIPS THEN Cardinality(keys) ELSE TOP_ZIPS
    IN  {T \in SUBSET keys :
           /\ Cardinality(T) = m
           /\ \A t \in T : \A u \in keys \ T : vc[t] >= vc[u]}

(* df[df['PostalCode'].isin(top_zips)].copy() *)
RowsIn(d, c, top) ==
    SelectSeq(d, LAMBDA r : ~IsNA(r[c]) /\ r[c][1] \in top)

T_ZipFreq ==
    /\ pc = "t_zip_freq"
    /\ IF "PostalCode" \notin cols
       THEN /\ report' = Skip("zip")
            /\ printed' = printed \cup {"zip"}
            /\ pc' = "t_gender_freq"
            /\ df_z' = df_z
       ELSE \E top \in TopZips(df) :
              /\ df_z' = RowsIn(df, "PostalCode", top)
              /\ Chi2Step(RowsIn(df, "PostalCode", top), "PostalCode",
                          "zip_freq", "t_zip_margin")
    /\ UNCHANGED <<T_Frame, passed, cols, df>>

T_ZipMargin ==
    /\ pc = "t_zip_margin"
    /\ KwStep(df_z, "PostalCode", "Margin", "zip_margin", "t_gender_freq")
    /\ UNCHANGED <<T_Frame, passed, cols, df, df_z>>

(* len(df['Gender'].fillna('MISSING').unique()) >= 2 *)
GenderCategories(d) == {FillMissing(d[i]["Gender"]) : i \in Rows(d)}

T_GenderFreq ==
    /\ pc = "t_gender_freq"
    /\ IF "Gender" \notin cols
       THEN /\ report' = Skip("gender")
            /\ printed' = printed \cup {"gender"}
            /\ pc' = "t_done"
       ELSE IF Cardinality(GenderCategories(df)) < 2
       THEN /\ report' = Skip("gender_freq")
            /\ printed' = printed \cup {"gender_freq"}
            /\ pc' = "t_done"
       ELSE Chi2Step(df, "Gender", "gender_freq", "t_gender_sev")
    /\ UNCHANGED <<T_Frame, passed, cols, df, df_z>>

(* male / female: the non-missing ClaimSeverity of the rows of one gender *)
GenderSample(d, g) == GroupVals(d, "Gender", g, "ClaimSeverity")

T_GenderGate(male, female) == Len(male) >= MW_MIN /\ Len(female) >= MW_MIN

(* stats.mannwhitneyu(male, female) outside any try: a p-value or raises. *)
T_GenderSeverity ==
    /\ pc = "t_gender_sev"
    /\ LET male == GenderSample(df, "Male")
           female == GenderSample(df, "Female")
       IN  IF T_GenderGate(male, female)
           THEN \E p \in PVals \cup {P_ONE + 1} :
                  IF p > P_ONE
                  THEN pc' = "raised" /\ UNCHANGED <<report, printed>>
                  ELSE /\ report' = Rep("gender_sev", Decision(p), Some(p), NoCrosstab,
                                        {}, Some(<<male, female>>))
                       /\ printed' = printed \cup {"gender_sev"}
                       /\ pc' = "t_done"
           ELSE /\ report' = Skip("gender_sev")
                /\ printed' = printed \cup {"gender_sev"}
                /\ pc' = "t_done"
    /\ UNCHANGED <<T_Frame, passed, cols, df, df_z>>

----------------------------------------------------------------------------

Next ==
    \/ R_Main \/ R_Province \/ R_PostalCode \/ R_Make \/ R_Model
    \/ T_Main \/ T_Prepare \/ T_SummaryOverall
    \/ T_ProvinceFreq \/ T_ProvinceSeverity
    \/ T_ZipFreq \/ T_ZipMargin
    \/ T_GenderFreq \/ T_GenderSeverity

Spec == Init /\ [][Next]_vars

----------------------------------------------------------------------------
(* What the claims speak of, stated over the records of df directly. *)

HasTable == table.group_col # ""

SegValues(c) == {df[i][c][1] : i \in {j \in Rows(df) : df[j][c] # NA}}
RecordsOf(c, g) == {i \in Rows(df) : df[i][c] # NA /\ df[i][c][1] = g}
MissingSeg(c) == {i \in Rows(df) : df[i][c] = NA}
Complement(c, g) == Rows(df) \ RecordsOf(c, g)

Amount(i, col) == IF df[i][col] = NA THEN 0 ELSE df[i][col][1]
Total(S, col) == SumSet(S, [i \in S |-> Amount(i, col)])
WithClaim(S) == {i \in S : Amount(i, "TotalClaims") > 0}
PolicyCount(S) ==
    IF "PolicyID" \in cols
    THEN Cardinality({df[i]["PolicyID"][1] : i \in {j \in S : df[j]["PolicyID"] # NA}})
    ELSE Cardinality(S)
Quotient(a, b) == IF b = 0 THEN NA ELSE Some(<<a, b>>)

RowNames == {row.name : row \in table.rows}
RowTotal(field) == SumSet(table.rows, [row \in table.rows |-> row[field]])

(* The top_n that run_all passes for a column (0: none). *)
TopNOf(c) ==
    CASE c = "PostalCode" -> TOP_POSTAL
      [] c = "make" -> TOP_MAKE
      [] c = "Model" -> TOP_MODEL
      [] OTHER -> 0

RowIsRight(c, row) ==
    LET S == RecordsOf(c, row.name)
    IN  /\ row.policies = PolicyCount(S)
        /\ row.claims_count = Cardinality(WithClaim(S))
        /\ row.total_premium = Total(S, "TotalPremium")
        /\ row.total_claims = Total(S, "TotalClaims")
        /\ row.loss_ratio = Quotient(Total(S, "TotalClaims"), Total(S, "TotalPremium"))

(* C1, as claimed: every non-missing value g of the segment column has a    *)
(* row in the table returned by summarize_group, and that row holds g's     *)
(* policy count, claim count, premium and claim sums and loss ratio.        *)
C1_EveryValueHasRow ==
    HasTable =>
      \A g \in SegValues(table.group_col) :
        \E row \in table.rows : row.name = g /\ RowIsRight(table.group_col, row)

(* C1, amended: every row of the table is the row of one non-missing value  *)
(* g with g's policy count, claim count, sums and loss ratio (undefined for *)
(* a premium sum of 0), no value has two rows, and the table has a row for  *)
(* every value unless top_n is given and smaller than the number of values, *)
(* in which case it has top_n rows.                                         *)
C1_RowsAreRight ==
    HasTable =>
      LET c == table.group_col
          nv == Cardinality(SegValues(c))
      IN  /\ \A row \in table.rows : row.name \in SegValues(c) /\ RowIsRight(c, row)
          /\ \A r1 \in table.rows : \A r2 \in table.rows : r1.name = r2.name => r1 = r2
          /\ Cardinality(table.rows) =
               IF TopNOf(c) # 0 /\ TopNOf(c) < nv THEN TopNOf(c) ELSE nv

(* The end-to-end scenario: A = 2, 1, 200, 50, 0.25 and B = 2, 0, ratio 0. *)
C1_Witness ==
    /\ table.group_col = "Province"
    /\ "PolicyID" \notin cols
    /\ \E a \in table.rows : \E b \in table.rows :
         /\ a.name = "A" /\ a.policies = 2 /\ a.claims_count = 1
         /\ a.total_premium = 200 /\ a.total_claims = 50
         /\ a.loss_ratio = Some(<<50, 200>>)
         /\ b.name = "B" /\ b.policies = 2 /\ b.claims_count = 0
         /\ b.loss_ratio = Some(<<0, 200>>)

(* C2, as claimed: the rows' total_premium, total_claims and claims_count,  *)
(* plus the same sums over the records with a missing segment value, equal  *)
(* the sums over all records, whatever top_n is.                            *)
C2_Conservation ==
    HasTable =>
      LET M == MissingSeg(table.group_col)
      IN  /\ RowTotal("total_premium") + Total(M, "TotalPremium")
               = Total(Rows(df), "TotalPremium")
          /\ RowTotal("total_claims") + Total(M, "TotalClaims")
               = Total(Rows(df), "TotalClaims")
          /\ RowTotal("claims_count") + Cardinality(WithClaim(M))
               = Cardinality(WithClaim(Rows(df)))

CutRecords(c) == {i \in Rows(df) : df[i][c] # NA /\ df[i][c][1] \notin RowNames}

(* C2, amended: the rows' sums, plus the sums over the records with a       *)
(* missing segment value, plus the sums over the records of the groups cut  *)
(* by top_n, equal the sums over all records.                               *)
C2_ConservationWithCut ==
    HasTable =>
      LET M == MissingSeg(table.group_col) \cup CutRecords(table.group_col)
      IN  /\ RowTotal("total_premium") + Total(M, "TotalPremium")
               = Total(Rows(df), "TotalPremium")
          /\ RowTotal("total_claims") + Total(M, "TotalClaims")
               = Total(Rows(df), "TotalClaims")
          /\ RowTotal("claims_count") + Cardinality(WithClaim(M))
               = Cardinality(WithClaim(Rows(df)))

(* A table that top_n cut, the cut group holding premium and a claim. *)
C2_Witness ==
    /\ HasTable
    /\ Total(CutRecords(table.group_col), "TotalPremium") > 0
    /\ WithClaim(CutRecords(table.group_col)) # {}
    /\ Cardinality(table.rows) = TOP_POSTAL

(* C3: in every row of the table claim_freq is undefined or lies in [0, 1], *)
(* that is, claims_count does not exceed policies.                          *)
C3_ClaimFreqInUnitInterval ==
    \A row \in table.rows :
      \/ row.claim_freq = NA
      \/ 0 <= row.claims_count /\ row.claims_count <= row.policies

(* C4: for every row g of the table, the pair (rest_k, rest_n) given to     *)
(* two_prop_ztest and the sample s_rest given to Mann-Whitney both cover    *)
(* exactly the records whose segment value differs from g.                  *)
C4_RestIsComplement ==
    HasTable =>
      \A row \in table.rows :
        LET c == table.group_col
            comp == Complement(c, row.name)
        IN  /\ RestK(df, cols, c, row.name) = Cardinality(WithClaim(comp))
            /\ RestN(df, cols, c, row.name) = PolicyCount(comp)
            /\ SRest(df, c, row.name) = {i \in comp : df[i]["ClaimSeverity"] # NA}

(* C5: two_prop_ztest(k1, n1, k2, n2), as summarize_group calls it for a    *)
(* row, returns no z and no p-value exactly when n1 = 0, n2 = 0, or the     *)
(* pooled proportion (k1 + k2) / (n1 + n2) is 0 or 1.                       *)
C5_ZTestInapplicableOnlyWhenDegenerate ==
    HasTable =>
      \A row \in table.rows :
        LET k1 == row.claims_count
            n1 == row.policies
            k2 == RestK(df, cols, table.group_col, row.name)
            n2 == RestN(df, cols, table.group_col, row.name)
            r == two_prop_ztest(k1, n1, k2, n2)
        IN  /\ (r.z = NA) = (r.pval = NA)
            /\ (r.z = NA) = (n1 = 0 \/ n2 = 0 \/ k1 + k2 = 0 \/ k1 + k2 = n1 + n2)

(* C6: Mann-Whitney is run only when both samples have at least 10         *)
(* observations; with 9 or fewer in either, the result is inapplicable: no  *)
(* statistic and no p-value in the summary row, a skip in run_tests.        *)
GenderClaims(g) ==
    Cardinality({i \in Rows(df) : df[i]["Gender"] = Some(g) /\ Amount(i, "TotalClaims") > 0})

C6_MannWhitneyGated ==
    /\ HasTable =>
         \A row \in table.rows :
           LET x == WithClaim(RecordsOf(table.group_col, row.name))
               y == WithClaim(Complement(table.group_col, row.name))
           IN  (Cardinality(x) <= 9 \/ Cardinality(y) <= 9) =>
                 row.mw_stat_severity_vs_rest = NA /\ row.p_severity_vs_rest = NA
    /\ report.test = "gender_sev" =>
         ((GenderClaims("Male") <= 9 \/ GenderClaims("Female") <= 9) =>
            report.outcome = "skip" /\ report.p = NA)

(* A row whose own sample has exactly 9 claims against a rest of 10 or more. *)
C6_Witness ==
    /\ HasTable
    /\ \E row \in table.rows :
         /\ Cardinality(WithClaim(RecordsOf(table.group_col, row.name))) = 9
         /\ Cardinality(WithClaim(Complement(table.group_col, row.name))) >= 10
         /\ row.mw_stat_severity_vs_rest = NA

(* C7: kw_test_numeric keeps exactly the groups with at least 20            *)
(* non-missing values as labels, hands exactly those groups to the test,    *)
(* and returns no statistic and no p-value when fewer than 2 groups qualify.*)
IsKwTest == report.test \in {"province_sev", "zip_margin"}

KwSize(g) ==
    IF report.test = "province_sev"
    THEN Cardinality({i \in Rows(df) :
                        df[i]["Province"] = Some(g) /\ Amount(i, "TotalClaims") > 0})
    ELSE Cardinality({i \in Rows(df_z) :
                        /\ df_z[i]["PostalCode"] = Some(g)
                        /\ df_z[i]["TotalPremium"] # NA
                        /\ df_z[i]["TotalClaims"] # NA})

KwKeys ==
    IF report.test = "province_sev"
    THEN SegValues("Province")
    ELSE {df_z[i]["PostalCode"][1] : i \in Rows(df_z)}

KwQualifying == {g \in KwKeys : KwSize(g) >= 20}

C7_KruskalWallisGate ==
    IsKwTest =>
      /\ report.labels = KwQualifying
      /\ Cardinality(KwQualifying) < 2 =>
           report.p = NA /\ report.groups = NA /\ report.outcome = "skip"
      /\ report.groups # NA =>
           /\ DOMAIN report.groups[1] = KwQualifying
           /\ \A g \in KwQualifying : Len(report.groups[1][g]) = KwSize(g)

(* One group qualifies, another exists below the threshold: inapplicable. *)
C7_Witness ==
    /\ IsKwTest
    /\ Cardinality(report.labels) = 1
    /\ \E g \in KwKeys : KwSize(g) > 0 /\ KwSize(g) < 20
    /\ report.p = NA

(* C8: chi-square contingency tables. *)
IsChi2Report ==
    report.test \in {"province_freq", "zip_freq", "gender_freq"} /\ report.outcome # "skip"

Chi2Col ==
    CASE report.test = "province_freq" -> "Province"
      [] report.test = "zip_freq" -> "PostalCode"
      [] OTHER -> "Gender"

LabelOf(i, c) == IF df[i][c] = NA THEN "MISSING" ELSE df[i][c][1]
OccurredOf(i) == IF Amount(i, "TotalClaims") > 0 THEN 1 ELSE 0

CellSum(ct) == SumSet(DOMAIN ct.cell, ct.cell)

(* The table counts exactly the records of S, each in the cell of its       *)
(* label and claim-occurred value.                                          *)
TableCounts(ct, S, c) ==
    /\ CellSum(ct) = Cardinality(S)
    /\ \A i \in S : <<LabelOf(i, c), OccurredOf(i)>> \in DOMAIN ct.cell
    /\ \A x \in DOMAIN ct.cell :
         ct.cell[x] = Cardinality({i \in S : LabelOf(i, c) = x[1] /\ OccurredOf(i) = x[2]})

(* C8, as claimed: every chi-square table of run_tests (Province,           *)
(* PostalCode, Gender) counts every record of the dataset in exactly one    *)
(* cell, records with a missing segment value under the row "MISSING".      *)
C8_TableCoversDataset ==
    IsChi2Report => TableCounts(report.ct, Rows(df), Chi2Col)

CodeCount(g) == Cardinality(RecordsOf("PostalCode", g))

(* C8, amended: the Province and Gender tables count every record of the    *)
(* dataset, missing values under "MISSING"; the PostalCode table counts     *)
(* only the records of the (at most ten) most frequent non-missing postal   *)
(* codes, and has no "MISSING" row.                                         *)
C8_TableCoversDatasetOrTopZips ==
    IsChi2Report =>
      IF report.test # "zip_freq"
      THEN TableCounts(report.ct, Rows(df), Chi2Col)
      ELSE LET top == report.ct.labels
               codes == SegValues("PostalCode")
           IN  /\ top \subseteq codes
               /\ Cardinality(top) = IF Cardinality(codes) < 10
                                     THEN Cardinality(codes) ELSE 10
               /\ \A t \in top : \A u \in codes \ top : CodeCount(t) >= CodeCount(u)
               /\ TableCounts(report.ct,
                              {i \in Rows(df) : df[i]["PostalCode"] # NA
                                                /\ df[i]["PostalCode"][1] \in top},
                              "PostalCode")

(* A PostalCode table that leaves records of the dataset out. *)
C8_Witness ==
    /\ report.test = "zip_freq"
    /\ report.outcome # "skip"
    /\ CellSum(report.ct) < Len(df)
    /\ Cardinality(report.ct.labels) = 10

(* C9: with input located, the absence of an optional column (Province,     *)
(* PostalCode, Gender, make, Model, PolicyID, TotalPremium) raises nothing, *)
(* and the run ends with the table or test of every present column done.    *)
AbsentCols == OptionalCols \ cols

(* Every categorical column of the file has some value and the file is too  *)
(* small for a rank test, so that nothing but an absent column can fail.    *)
SoundFile ==
    /\ \A c \in CatCols \cap cols : \E i \in Rows(file) : file[i][c] # NA
    /\ Len(file) < MW_MIN

OutputOf(c) ==
    CASE c = "Province" -> "province_summary.csv"
      [] c = "PostalCode" -> "postalcode_top10_summary.csv"
      [] c = "make" -> "make_summary_top20.csv"
      [] c = "Model" -> "model_summary_top20.csv"

C9_FailureIsolation ==
    (found /\ AbsentCols # {} /\ SoundFile) =>
      /\ pc # "raised"
      /\ pc = "r_done" =>
           written = {OutputOf(c) : c \in cols \cap {"Province", "PostalCode", "make", "Model"}}
      /\ pc = "t_done" =>
           /\ "Province" \in cols => {"province_freq", "province_sev"} \subseteq printed
           /\ "PostalCode" \in cols => {"zip_freq", "zip_margin"} \subseteq printed
           /\ "Gender" \in cols => "gender_freq" \in printed

(* C10: every report of run_tests is one of three outcomes: "Reject H0"     *)
(* exactly when there is a p-value and p < 0.05, "Fail to reject H0"        *)
(* exactly when there is a p-value and p >= 0.05, a skip exactly when the   *)
(* test is inapplicable (no p-value); a test whose sample-size gate is not  *)
(* met is a skip.                                                           *)
C10_DecisionRule ==
    report.test # "" =>
      /\ report.outcome \in {"Reject H0", "Fail to reject H0", "skip"}
      /\ (report.outcome = "Reject H0") = (report.p # NA /\ report.p[1] < 5)
      /\ (report.outcome = "Fail to reject H0") = (report.p # NA /\ report.p[1] >= 5)
      /\ (report.outcome = "skip") = (report.p = NA)
      /\ (IsKwTest /\ Cardinality(KwQualifying) < 2) => report.outcome = "skip"
      /\ (report.test = "gender_sev"
            /\ (GenderClaims("Male") < 10 \/ GenderClaims("Female") < 10)) =>
           report.outcome = "skip"

(* A test with p exactly 0.05: not rejected. *)
C10_Witness ==
    /\ report.test # ""
    /\ report.p = Some(5)
    /\ report.outcome = "Fail to reject H0"

----------------------------------------------------------------------------
(* The order of the returned table *)

RowOf(g) == CHOOSE row \in table.rows : row.name = g
OrderPlaces == 1..Len(table.order)

(* The sequence holds every row of the table once. *)
OrderHoldsRows ==
    /\ Len(table.order) = Cardinality(table.rows)
    /\ {table.order[i] : i \in OrderPlaces} = RowNames

(* Policy count never rises from one row to the next. *)
OrderedByPolicies ==
    \A i \in OrderPlaces : \A j \in OrderPlaces :
      i < j => RowOf(table.order[i]).policies >= RowOf(table.order[j]).policies

(* With top_n given: at most top_n rows, and no dropped segment value has   *)
(* more policies than a retained one.                                       *)
TopNRetained ==
    LET c == table.group_col
    IN  TopNOf(c) # 0 =>
          /\ Cardinality(table.rows) <= TopNOf(c)
          /\ \A g \in SegValues(c) \ RowNames : \A row \in table.rows :
               row.policies >= PolicyCount(RecordsOf(c, g))

(* Rows of equal policy count stand in the order of their segment values    *)
(* (the original group order).                                              *)
TiesInGroupOrder ==
    \A i \in OrderPlaces : \A j \in OrderPlaces :
      (i < j /\ RowOf(table.order[i]).policies = RowOf(table.order[j]).policies)
        => LabelIndex(table.order[i]) < LabelIndex(table.order[j])

(* Of a retained and a dropped segment value of equal policy count, the     *)
(* retained one is the earlier in group order.                              *)
TiesCutInGroupOrder ==
    LET c == table.group_col
    IN  \A g \in SegValues(c) \ RowNames : \A row \in table.rows :
          row.policies = PolicyCount(RecordsOf(c, g)) => LabelIndex(row.name) < LabelIndex(g)

(* C11: the table returned by summarize_group is ordered by policy count    *)
(* descending; with top_n given it has at most top_n rows and every         *)
(* retained group has at least the policy count of every dropped group;     *)
(* groups of equal policy count are retained and ordered by the tie-break   *)
(* on segment value / original group order, so that the input fixes the     *)
(* rows and their order.                                                    *)
C11_OrderedWithTieBreak ==
    HasTable =>
      /\ OrderHoldsRows
      /\ OrderedByPolicies
      /\ TopNRetained
      /\ TiesInGroupOrder
      /\ TiesCutInGroupOrder

----------------------------------------------------------------------------
(* The record set handed to the Metric Normalizer *)

PrepareReturned == passed # <<>>

(* The columns of a record set. *)
ColumnsOf(d) == UNION {DOMAIN d[i] : i \in Rows(d)}

(* C12: after prepare returns, the record set the caller passed has the     *)
(* columns and the raw values it had before the call (those read from the   *)
(* file), and the coerced amounts and the derived fields ClaimOccurred,     *)
(* ClaimSeverity and Margin are in the returned record set only.            *)
C12_CallerRecordSetUnchanged ==
    PrepareReturned =>
      /\ ColumnsOf(passed) = ColumnsOf(file)
      /\ passed = file
      /\ ColumnsOf(passed) \cap DerivedCols = {}
      /\ DerivedCols \subseteq ColumnsOf(df)

====
